---- MODULE Spec2Model ----
(***************************************************************************)
(* JrpcWebSocketClient (clients/typescript): the JSON-RPC client core.     *)
(* One client instance, the WebSocket objects it has created, the timers   *)
(* it has armed and the promises it has handed to its callers.  Every      *)
(* action is one turn of the event loop: a caller's call, a socket event,  *)
(* a timer callback, each with the promise reactions it triggers.          *)
(***************************************************************************)
EXTENDS Naturals, Sequences, FiniteSets

\* ---------------------------------------------------------------- bounds
MaxSock == 2        \* WebSocket objects the instance creates in one run
MaxId == 2          \* request ids the instance assigns in one run
MaxFrame == 2       \* elements of an incoming array frame
MaxSub == 2         \* subscribe() calls in one run
MaxNotif == 2       \* callback invocations counted per subscription

Nil == <<>>

VARIABLES
  socks,            \* every WebSocket created by connect(): <<[st, w, n]>>
  ws,               \* this.ws: index into socks, 0 = null
  state,            \* this.state
  reconnect,        \* this.options.reconnect
  reconnectTimer,   \* this.reconnectTimer: a timer handle, 0 = null
  liveTimers,       \* reconnect timers armed with setTimeout and not yet fired or cleared
  requestId,        \* this.requestId
  pendingRequests,  \* keys of this.pendingRequests
  timeouts,         \* request ids whose timeout timer is armed
  promise,          \* id -> state of the promise of that pending call
  settles,          \* id -> times the pending call's resolve/reject was invoked
  sendOf,           \* id -> what ws.send did with the envelope
  calls,            \* id -> the Map.set and ws.send calls made for it, in order
  batches,          \* the batch() calls that reached the send: <<[ids, st, res]>>
  userOff,          \* the caller's last lifecycle call was disconnect()
  subscriptions,    \* subscribe() call -> how far it and its unsubscribe() have got
  router,           \* Notification Router: the subscriptions with a registered callback
  cbCalls,          \* subscription -> invocations of its callback: [n, last params]
  ev                \* the turn that produced this state

vars == <<socks, ws, state, reconnect, reconnectTimer, liveTimers, requestId,
          pendingRequests, timeouts, promise, settles, sendOf, calls, batches,
          userOff, subscriptions, router, cbCalls, ev>>

\* the client core without the subscription layer, and the subscription layer
coreVars == <<socks, ws, state, reconnect, reconnectTimer, liveTimers, requestId,
              pendingRequests, timeouts, promise, settles, sendOf, calls, batches,
              userOff>>
subVars == <<subscriptions, router, cbCalls>>

SubIds == 1..MaxSub

Ids == 1..MaxId

\* ------------------------------------------------------------ WebSocket
\* A socket's life: connecting -> open -> (closingO ->) closed, or
\* connecting -> (closingC ->) errored -> closed.  closingC / closingO: close()
\* was called while connecting / while open.  errored: the connection failed,
\* the error event has been dispatched and the close event follows.
ReadyState(st) ==
  CASE st = "connecting" -> "CONNECTING"
    [] st = "open" -> "OPEN"
    [] st \in {"closingC", "closingO"} -> "CLOSING"
    [] OTHER -> "CLOSED"

\* IsOpen that never sees an open socket
IsOpenNever(w) == FALSE

\* this.ws?.readyState === WebSocket.OPEN
IsOpen(w) == w # 0 /\ ReadyState(socks[w].st) = "OPEN"

\* ws.send(text) on this.ws: a null reference or a CONNECTING socket throws,
\* an OPEN socket sends, a CLOSING or CLOSED socket discards the data silently.
Send(sk, w) ==
  IF w = 0 THEN "threw"
  ELSE CASE ReadyState(sk[w].st) = "CONNECTING" -> "threw"
         [] ReadyState(sk[w].st) = "OPEN" -> "sent"
         [] OTHER -> "dropped"

\* ws.close(): starts the closing handshake; a closed socket is left alone.
CloseSocket(st) ==
  CASE st = "connecting" -> "closingC"
    [] st = "open" -> "closingO"
    [] OTHER -> st

\* ids reserved by calls that are still awaiting their implicit connect()
RECURSIVE Reserved(_)
Reserved(k) ==
  IF k = 0 THEN 0
  ELSE (IF socks[k].w \in {"request", "batch"} THEN socks[k].n ELSE 0) + Reserved(k - 1)

FreeIds == MaxId - requestId - Reserved(Len(socks))

\* the turn taken: its kind, the sockets or ids it is about, and a detail (the
\* socket's status before its event; whether a frame carried a notification)
EvX(op, a, x) == [op |-> op, a |-> a, x |-> x]
Ev(op, a) == EvX(op, a, "-")
\* ... and, for a socket that failed, the call that was awaiting it
EvW(op, a, x, w) == [op |-> op, a |-> a, x |-> x, w |-> w]

\* ------------------------------------------------------- pending calls
\* The part of the state the correlation table's callbacks act on.
Corr == [pend |-> pendingRequests, tmo |-> timeouts, prom |-> promise,
         sett |-> settles, bat |-> batches]

BatchIds(b) == {b.ids[i] : i \in DOMAIN b.ids}

Rejected(p) == p.why \in {"rpc", "timeout", "closed", "send"}

\* PromiseAll with the results collected in arrival order
PromiseAllArrival(bat, prom, id) ==
  [k \in DOMAIN bat |->
     LET b == bat[k] IN
     IF id \in BatchIds(b) /\ b.st = "pending"
     THEN IF Rejected(prom[id])
          THEN [b EXCEPT !.st = "rejected", !.res = <<prom[id].why, prom[id].v>>]
          ELSE LET r == Append(b.res, prom[id].v) IN
               IF Len(r) = Len(b.ids)
               THEN [b EXCEPT !.st = "resolved", !.res = r]
               ELSE [b EXCEPT !.res = r]
     ELSE b]

\* Promise.all(promises) reacting to the settlement of element id: it rejects
\* with the first rejection, and resolves once every element has resolved,
\* with the values in input order.
PromiseAll(bat, prom, id) ==
  [k \in DOMAIN bat |->
     LET b == bat[k] IN
     IF id \in BatchIds(b) /\ b.st = "pending"
     THEN IF Rejected(prom[id])
          THEN [b EXCEPT !.st = "rejected", !.res = <<prom[id].why, prom[id].v>>]
          ELSE IF \A j \in BatchIds(b) : prom[j].why = "result"
               THEN [b EXCEPT !.st = "resolved",
                              !.res = [i \in DOMAIN b.ids |-> prom[b.ids[i]].v]]
               ELSE b
     ELSE b]

\* Settle without the clearTimeout
SettleKeepsTimer(c, id, why, v) ==
  LET p == c.prom[id]
      prom2 == [c.prom EXCEPT ![id] = IF p.why = "pending" THEN [why |-> why, v |-> v] ELSE p]
  IN [c EXCEPT !.prom = prom2,
               !.sett[id] = @ + 1,
               !.bat = PromiseAll(@, prom2, id)]

\* Invoking the resolve / reject stored for id (or the timeout callback's reject):
\* clearTimeout, then the promise settles unless it already has.
Settle(c, id, why, v) ==
  LET p == c.prom[id]
      prom2 == [c.prom EXCEPT ![id] = IF p.why = "pending" THEN [why |-> why, v |-> v] ELSE p]
  IN [c EXCEPT !.tmo = @ \ {id},
               !.prom = prom2,
               !.sett[id] = @ + 1,
               !.bat = PromiseAll(@, prom2, id)]

\* OnTimeout that clears the whole table
OnTimeoutClearsTable(c, id) == Settle([c EXCEPT !.pend = {}], id, "timeout", Nil)

\* OnTimeout without the delete
OnTimeoutKeepsEntry(c, id) == Settle(c, id, "timeout", Nil)

\* the setTimeout callback of request(): delete the entry, reject
OnTimeout(c, id) == Settle([c EXCEPT !.pend = @ \ {id}], id, "timeout", Nil)

\* new Error(`${message.error.message} (code: ${message.error.code})`): an
\* Error whose only content is the text made of the message and the code
NewError(e) == [message |-> <<e.message, " (code: ", e.code, ")">>]

\* what the entry of a response is settled with: reject(new Error(...)) when
\* the response has an error member, resolve(message.result) otherwise
Outcome(m) ==
  IF m.k = "error" THEN [why |-> "rpc", v |-> NewError(m.v)]
  ELSE [why |-> "result", v |-> m.v]

\* HandleSingleMessage without the delete
HandleSingleMessageKeepsEntry(c, m) ==
  IF m.k = "notif" THEN c
  ELSE IF m.id \notin c.pend THEN c
  ELSE Settle(c, m.id, Outcome(m).why, Outcome(m).v)

\* HandleSingleMessage without the lookup guard
HandleSingleMessageNoGuard(c, m) ==
  IF m.k = "notif" THEN c
  ELSE Settle([c EXCEPT !.pend = @ \ {m.id}], m.id,
              Outcome(m).why, Outcome(m).v)

\* HandleSingleMessage that correlates by position: the oldest entry is settled
HandleSingleMessageFifo(c, m) ==
  IF m.k = "notif" THEN c
  ELSE IF m.id \notin c.pend THEN c
  ELSE LET o == CHOOSE i \in c.pend : \A j \in c.pend : i <= j
       IN Settle([c EXCEPT !.pend = @ \ {o}], o,
                 Outcome(m).why, Outcome(m).v)

\* HandleSingleMessage without the notification check: an id-less message is
\* taken for the answer to the oldest entry
HandleSingleMessageNoIdCheck(c, m) ==
  IF m.k = "notif"
  THEN IF c.pend = {} THEN c
       ELSE LET o == CHOOSE i \in c.pend : \A j \in c.pend : i <= j
            IN Settle([c EXCEPT !.pend = @ \ {o}], o, "result", m.v)
  ELSE IF m.id \notin c.pend THEN c
  ELSE Settle([c EXCEPT !.pend = @ \ {m.id}], m.id,
              Outcome(m).why, Outcome(m).v)

\* handleSingleMessage(message) for a decoded element that is an object
HandleSingleMessage(c, m) ==
  IF m.k = "notif" THEN c
  ELSE IF m.id \notin c.pend THEN c
  ELSE Settle([c EXCEPT !.pend = @ \ {m.id}], m.id,
              Outcome(m).why, Outcome(m).v)

\* the for-loop of handleMessage over an array frame; a null element makes
\* `'id' in message` throw, which leaves the loop for the catch clause
RECURSIVE HandleItems(_, _)
HandleItems(c, items) ==
  IF items = <<>> THEN c
  ELSE IF Head(items).k = "null" THEN c
  ELSE HandleItems(HandleSingleMessage(c, Head(items)), Tail(items))

\* HandleMessage whose catch clause gives up the table
HandleMessageCatchClears(c, f) ==
  IF f.k = "garbage" THEN [c EXCEPT !.pend = {}]
  ELSE IF f.k = "array" THEN HandleItems(c, f.items)
  ELSE HandleItems(c, <<f.m>>)

\* handleMessage(data)
HandleMessage(c, f) ==
  IF f.k = "garbage" THEN c
  ELSE IF f.k = "array" THEN HandleItems(c, f.items)
  ELSE HandleItems(c, <<f.m>>)

\* RejectAll that invokes the reject of every call ever made, in the table or not
RejectAllEver(c, ids) ==
  [c EXCEPT !.tmo = {},
            !.prom = [i \in Ids |-> IF c.prom[i].why = "pending"
                                    THEN [why |-> "closed", v |-> Nil] ELSE c.prom[i]],
            !.sett = [i \in Ids |-> IF c.prom[i].why # "unborn" THEN c.sett[i] + 1
                                    ELSE c.sett[i]]]

\* RejectAll that drops the entries without rejecting them
RejectNone(c, ids) == c

\* disconnect()'s loop over Array.from(this.pendingRequests.values())
RECURSIVE RejectAll(_, _)
RejectAll(c, ids) ==
  IF ids = {} THEN c
  ELSE LET id == CHOOSE i \in ids : \A j \in ids : i <= j
       IN RejectAll(Settle(c, id, "closed", Nil), ids \ {id})

\* ------------------------------------------------------------- frames
\* The server answers request id with a payload that is its own: the result
\* of that request, or the error object of that request.
ResultOf(id) == <<"result", id>>
ErrorOf(id) == [code |-> id, message |-> <<"message", id>>, data |-> <<"data", id>>]
Responses == {[k |-> "result", id |-> i, v |-> ResultOf(i)] : i \in Ids}
               \cup {[k |-> "error", id |-> i, v |-> ErrorOf(i)] : i \in Ids}
Msgs == Responses \cup {[k |-> "notif", id |-> 0, v |-> Nil], [k |-> "null", id |-> 0, v |-> Nil]}
Arrays == UNION {[1..n -> Msgs] : n \in 1..MaxFrame}
Frames == {[k |-> "garbage"]} \cup {[k |-> "single", m |-> m] : m \in Msgs}
            \cup {[k |-> "array", items |-> a] : a \in Arrays}

FrameItems(f) == IF f.k = "garbage" THEN <<>> ELSE IF f.k = "array" THEN f.items ELSE <<f.m>>

FrameIds(f) == {FrameItems(f)[i].id : i \in DOMAIN FrameItems(f)} \ {0}

\* the frame holds a message with method and params and no id
HasNotif(f) == \E i \in DOMAIN FrameItems(f) : FrameItems(f)[i].k = "notif"

\* what JSON.parse makes of the frame, as far as the handler tells it apart:
\* not JSON at all, holding a message without id, or neither
FrameKind(f) ==
  IF f.k = "garbage" THEN "garbage" ELSE IF HasNotif(f) THEN "notif" ELSE "-"

\* the socket whose error event has been dispatched and whose close event
\* follows in the same task (0: none); no other turn runs in between
ErrPending ==
  IF \E s \in DOMAIN socks : socks[s].st = "errored"
  THEN CHOOSE s \in DOMAIN socks : socks[s].st = "errored"
  ELSE 0

\* ------------------------------------------------------------- initial
Init ==
  /\ socks = <<>>
  /\ ws = 0
  /\ state = "disconnected"
  /\ reconnect \in BOOLEAN
  /\ reconnectTimer = 0
  /\ liveTimers = {}
  /\ requestId = 0
  /\ pendingRequests = {}
  /\ timeouts = {}
  /\ promise = [i \in Ids |-> [why |-> "unborn", v |-> Nil]]
  /\ settles = [i \in Ids |-> 0]
  /\ sendOf = [i \in Ids |-> "none"]
  /\ calls = [i \in Ids |-> <<>>]
  /\ batches = <<>>
  /\ userOff = FALSE
  /\ subscriptions = [k \in SubIds |-> "none"]
  /\ router = {}
  /\ cbCalls = [k \in SubIds |-> [n |-> 0, last |-> Nil]]
  /\ ev = Ev("init", {})

\* ------------------------------------------------------ code fragments
\* connect() past its early return: a new WebSocket replaces this.ws; w is the
\* continuation awaiting the returned promise, n the ids it will assign
NewSocket(w, n) ==
  /\ Len(socks) < MaxSock
  /\ socks' = Append(socks, [st |-> "connecting", w |-> w, n |-> n])
  /\ ws' = Len(socks) + 1
  /\ state' = "connecting"

\* NextIds with the counter read once for the whole call
NextIdsStale(rid, n) == [i \in 1..n |-> rid + 1]

\* the ids n successive `++this.requestId` yield, counter at rid
NextIds(rid, n) == [i \in 1..n |-> rid + i]

\* IssueRequest that sends before it registers: a send that throws leaves
\* neither entry nor timer
IssueRequestSendFirst(sk) ==
  LET id == NextIds(requestId, 1)[1]
      threw == Send(sk, ws) = "threw" IN
  /\ requestId' = requestId + 1
  /\ timeouts' = IF threw THEN timeouts ELSE timeouts \cup {id}
  /\ pendingRequests' = IF threw THEN pendingRequests ELSE pendingRequests \cup {id}
  /\ sendOf' = [sendOf EXCEPT ![id] = Send(sk, ws)]
  /\ calls' = [calls EXCEPT ![id] = @ \o (IF threw THEN <<"send">> ELSE <<"send", "set">>)]
  /\ promise' = [promise EXCEPT ![id] =
                   IF threw THEN [why |-> "send", v |-> Nil]
                   ELSE [why |-> "pending", v |-> Nil]]
  /\ UNCHANGED batches

\* request() from `const id = ++this.requestId` on, with sk the sockets as
\* they are when it runs
IssueRequest(sk) ==
  LET id == NextIds(requestId, 1)[1] IN
  /\ requestId' = requestId + 1
  /\ timeouts' = timeouts \cup {id}
  /\ pendingRequests' = pendingRequests \cup {id}
  /\ sendOf' = [sendOf EXCEPT ![id] = Send(sk, ws)]
  /\ calls' = [calls EXCEPT ![id] = @ \o <<"set", "send">>]
  /\ promise' = [promise EXCEPT ![id] =
                   IF Send(sk, ws) = "threw" THEN [why |-> "send", v |-> Nil]
                   ELSE [why |-> "pending", v |-> Nil]]
  /\ UNCHANGED batches

\* batch() from `requests.map(... ++this.requestId ...)` on, for n requests
IssueBatch(sk, n) ==
  LET ids == NextIds(requestId, n)
      new == {ids[i] : i \in 1..n} IN
  /\ requestId' = requestId + n
  /\ pendingRequests' = pendingRequests \cup new
  /\ sendOf' = [i \in Ids |-> IF i \in new THEN Send(sk, ws) ELSE sendOf[i]]
  /\ calls' = [i \in Ids |-> IF i \in new THEN calls[i] \o <<"set", "send">> ELSE calls[i]]
  /\ promise' = [i \in Ids |-> IF i \in new THEN [why |-> "pending", v |-> Nil] ELSE promise[i]]
  /\ batches' = Append(batches, [ids |-> ids,
                                 st |-> IF Send(sk, ws) = "threw" THEN "sendfail" ELSE "pending",
                                 res |-> <<>>])
  /\ UNCHANGED timeouts

NoIssue == UNCHANGED <<requestId, pendingRequests, timeouts, promise, sendOf, calls, batches>>

\* Continue that sends the envelopes of the pending calls again when a
\* connect() made for no call succeeds
ContinueResends(sk, w, n) ==
  CASE w = "request" -> IssueRequest(sk)
    [] w = "batch" -> IssueBatch(sk, n)
    [] OTHER ->
         /\ UNCHANGED <<requestId, pendingRequests, timeouts, promise, batches>>
         /\ sendOf' = [i \in Ids |-> IF i \in pendingRequests THEN Send(sk, ws) ELSE sendOf[i]]
         /\ calls' = [i \in Ids |-> IF i \in pendingRequests THEN calls[i] \o <<"send">>
                                    ELSE calls[i]]

\* the code after `await this.connect()` of the call that awaits a socket
Continue(sk, w, n) ==
  CASE w = "request" -> IssueRequest(sk)
    [] w = "batch" -> IssueBatch(sk, n)
    [] OTHER -> NoIssue

\* ErrorState lost: onerror leaves the state as onclose will set it
ErrorStateLost == "disconnected"

\* the state ws.onerror sets
ErrorState == "error"

\* ShouldReconnect without the option
ShouldReconnectAlways(st) == st # "error"

\* the condition of handleDisconnect, read when onclose calls it
ShouldReconnect(st) == reconnect /\ st # "error"

\* writing the correlation state back
SetCorr(c) ==
  /\ pendingRequests' = c.pend
  /\ timeouts' = c.tmo
  /\ promise' = c.prom
  /\ settles' = c.sett
  /\ batches' = c.bat

\* ------------------------------------------------------ caller's calls
CallConnect ==
  /\ ErrPending = 0
  /\ IF IsOpen(ws) THEN UNCHANGED <<socks, ws, state>> ELSE NewSocket("connect", 0)
  /\ userOff' = FALSE
  /\ ev' = Ev("connect", {})
  /\ UNCHANGED subVars
  /\ NoIssue
  /\ UNCHANGED <<reconnect, reconnectTimer, liveTimers, settles>>

CallDisconnect ==
  /\ ErrPending = 0
  /\ reconnectTimer' = 0
  /\ liveTimers' = liveTimers \ {reconnectTimer}
  /\ socks' = IF ws # 0 THEN [socks EXCEPT ![ws].st = CloseSocket(@)] ELSE socks
  /\ ws' = 0
  /\ state' = "disconnected"
  /\ SetCorr([RejectAll(Corr, pendingRequests) EXCEPT !.pend = {}])
  /\ userOff' = TRUE
  /\ ev' = Ev("disconnect", {})
  /\ UNCHANGED subVars
  /\ UNCHANGED <<reconnect, requestId, sendOf, calls>>

CallRequest ==
  /\ ErrPending = 0
  /\ FreeIds >= 1
  /\ IF IsOpen(ws)
     THEN IssueRequest(socks) /\ UNCHANGED <<socks, ws, state>>
     ELSE NewSocket("request", 1) /\ NoIssue
  /\ userOff' = FALSE
  /\ ev' = Ev("request", {})
  /\ UNCHANGED subVars
  /\ UNCHANGED <<reconnect, reconnectTimer, liveTimers, settles>>

CallBatch(n) ==
  /\ ErrPending = 0
  /\ n \in 1..FreeIds
  /\ IF IsOpen(ws)
     THEN IssueBatch(socks, n) /\ UNCHANGED <<socks, ws, state>>
     ELSE NewSocket("batch", n) /\ NoIssue
  /\ userOff' = FALSE
  /\ ev' = Ev("batch", {})
  /\ UNCHANGED subVars
  /\ UNCHANGED <<reconnect, reconnectTimer, liveTimers, settles>>

\* -------------------------------------------------------- socket events
\* ws.onopen
SocketOpen(s) ==
  /\ ErrPending = 0
  /\ socks[s].st = "connecting"
  /\ LET sk == [socks EXCEPT ![s] = [st |-> "open", w |-> "none", n |-> 0]] IN
       /\ socks' = sk
       /\ Continue(sk, socks[s].w, socks[s].n)
  /\ state' = "connected"
  /\ reconnectTimer' = 0
  /\ liveTimers' = liveTimers \ {reconnectTimer}
  /\ ev' = Ev("open", {s})
  /\ UNCHANGED subVars
  /\ UNCHANGED <<ws, reconnect, settles, userOff>>

\* SocketError after which the awaiting call goes on as if connected
SocketErrorSwallowed(s) ==
  /\ ErrPending = 0
  /\ socks[s].st \in {"connecting", "closingC", "open"}
  /\ LET sk == [socks EXCEPT ![s] = [st |-> "errored", w |-> "none", n |-> 0]] IN
       /\ socks' = sk
       /\ Continue(sk, socks[s].w, socks[s].n)
  /\ state' = ErrorState
  /\ ev' = EvW("error", {s}, socks[s].st, socks[s].w)
  /\ UNCHANGED subVars
  /\ UNCHANGED <<ws, reconnect, reconnectTimer, liveTimers, settles, userOff>>

\* ws.onerror: the connection failed; the close event follows in the same task
SocketError(s) ==
  /\ ErrPending = 0
  /\ socks[s].st \in {"connecting", "closingC", "open"}
  /\ socks' = [socks EXCEPT ![s] = [st |-> "errored", w |-> "none", n |-> 0]]
  /\ state' = ErrorState
  /\ ev' = EvW("error", {s}, socks[s].st, socks[s].w)
  /\ UNCHANGED subVars
  /\ NoIssue
  /\ UNCHANGED <<ws, reconnect, reconnectTimer, liveTimers, settles, userOff>>

\* ws.onclose, with handleDisconnect()
SocketClose(s) ==
  /\ \/ ErrPending = 0 /\ socks[s].st \in {"open", "closingO"}
     \/ ErrPending = s /\ socks[s].st = "errored"
  /\ socks' = [socks EXCEPT ![s].st = "closed"]
  /\ state' = "disconnected"
  /\ IF ShouldReconnect("disconnected")
     THEN reconnectTimer' = s /\ liveTimers' = liveTimers \cup {s}
     ELSE UNCHANGED <<reconnectTimer, liveTimers>>
  /\ ev' = EvX("close", {s}, socks[s].st)
  /\ UNCHANGED subVars
  /\ NoIssue
  /\ UNCHANGED <<ws, reconnect, settles, userOff>>

\* ws.onmessage
Receive(s, f) ==
  /\ ErrPending = 0
  /\ socks[s].st = "open"
  /\ SetCorr(HandleMessage(Corr, f))
  /\ ev' = EvX("message", FrameIds(f), FrameKind(f))
  /\ UNCHANGED subVars
  /\ UNCHANGED <<socks, ws, state, reconnect, reconnectTimer, liveTimers, requestId,
                 sendOf, calls, userOff>>

\* -------------------------------------------------------- timer callbacks
\* the setTimeout callback of request()
RequestTimeout(id) ==
  /\ ErrPending = 0
  /\ id \in timeouts
  /\ SetCorr(OnTimeout(Corr, id))
  /\ ev' = Ev("timeout", {id})
  /\ UNCHANGED subVars
  /\ UNCHANGED <<socks, ws, state, reconnect, reconnectTimer, liveTimers, requestId,
                 sendOf, calls, userOff>>

\* the setTimeout callback of handleDisconnect(): this.connect().catch(...)
ReconnectFire(h) ==
  /\ ErrPending = 0
  /\ h \in liveTimers
  /\ liveTimers' = liveTimers \ {h}
  /\ IF IsOpen(ws) THEN UNCHANGED <<socks, ws, state>> ELSE NewSocket("timer", 0)
  /\ ev' = Ev("rtimer", {h})
  /\ UNCHANGED subVars
  /\ NoIssue
  /\ UNCHANGED <<reconnect, reconnectTimer, settles, userOff>>

Next ==
  \/ CallConnect
  \/ CallDisconnect
  \/ CallRequest
  \/ \E n \in 1..MaxId : CallBatch(n)
  \/ \E s \in DOMAIN socks : SocketOpen(s)
  \/ \E s \in DOMAIN socks : SocketError(s)
  \/ \E s \in DOMAIN socks : SocketClose(s)
  \/ \E s \in DOMAIN socks : \E f \in Frames : Receive(s, f)
  \/ \E id \in Ids : RequestTimeout(id)
  \/ \E h \in 1..MaxSock : ReconnectFire(h)

Spec == Init /\ [][Next]_vars

\* ------------------------------------------------- subscription layer
\* subscribe(method, params, callback) and unsubscribe(method, subscriptionId)
\* over request(), with the Notification Router.  A subscription goes
\* none -> subscribing -> active -> unsubscribing -> unsubscribed or
\* unsubscribe_failed (the server answered the unsubscribe with an error), or
\* none -> subscribing -> subscribe_failed.
Params == {"a", "b"}

\* subscribe(): on success the callback is registered against the subscription id
Register(reg, k) == reg \cup {k}

\* Unregister that keeps the callback when the server answers with an error
UnregisterOnSuccess(reg, k, ok) == IF ok THEN reg \ {k} ELSE reg

\* unsubscribe(): the registration is removed whatever the server answered
Unregister(reg, k, ok) == reg \ {k}

\* Dispatch that invokes every registered callback
DispatchToAll(reg, cc, k, p) ==
  [j \in SubIds |-> IF j \in reg /\ k \in reg
                    THEN [n |-> cc[j].n + 1, last |-> p] ELSE cc[j]]

\* dispatch(method, params) for a notification of subscription k: the callback
\* registered for it, if any, is invoked once with the params
Dispatch(reg, cc, k, p) ==
  IF k \in reg THEN [cc EXCEPT ![k] = [n |-> @.n + 1, last |-> p]] ELSE cc

Subscribe(k) ==
  /\ subscriptions[k] = "none"
  /\ subscriptions' = [subscriptions EXCEPT ![k] = "subscribing"]
  /\ ev' = Ev("subscribe", {k})
  /\ UNCHANGED <<router, cbCalls>>
  /\ UNCHANGED coreVars

\* the response to the subscribe request: a result with a subscription id, or an error
SubscribeResponse(k, ok) ==
  /\ subscriptions[k] = "subscribing"
  /\ subscriptions' = [subscriptions EXCEPT ![k] = IF ok THEN "active" ELSE "subscribe_failed"]
  /\ router' = IF ok THEN Register(router, k) ELSE router
  /\ ev' = EvX("subscribed", {k}, IF ok THEN "result" ELSE "error")
  /\ UNCHANGED cbCalls
  /\ UNCHANGED coreVars

\* a notification of subscription k arrives (the server may send one at any time)
Notification(k, p) ==
  /\ cbCalls[k].n < MaxNotif
  /\ cbCalls' = Dispatch(router, cbCalls, k, p)
  /\ ev' = EvX("notification", {k}, p)
  /\ UNCHANGED <<subscriptions, router>>
  /\ UNCHANGED coreVars

Unsubscribe(k) ==
  /\ subscriptions[k] = "active"
  /\ subscriptions' = [subscriptions EXCEPT ![k] = "unsubscribing"]
  /\ ev' = Ev("unsubscribe", {k})
  /\ UNCHANGED <<router, cbCalls>>
  /\ UNCHANGED coreVars

\* the response to the unsubscribe request; unsubscribe() returns
UnsubscribeResponse(k, ok) ==
  /\ subscriptions[k] = "unsubscribing"
  /\ subscriptions' = [subscriptions EXCEPT ![k] =
                         IF ok THEN "unsubscribed" ELSE "unsubscribe_failed"]
  /\ router' = Unregister(router, k, ok)
  /\ ev' = EvX("unsubscribed", {k}, IF ok THEN "result" ELSE "error")
  /\ UNCHANGED cbCalls
  /\ UNCHANGED coreVars

SubNext ==
  \/ \E k \in SubIds : Subscribe(k)
  \/ \E k \in SubIds : \E ok \in BOOLEAN : SubscribeResponse(k, ok)
  \/ \E k \in SubIds : \E p \in Params : Notification(k, p)
  \/ \E k \in SubIds : Unsubscribe(k)
  \/ \E k \in SubIds : \E ok \in BOOLEAN : UnsubscribeResponse(k, ok)

SubSpec == Init /\ [][SubNext]_vars

\* ================================================================ claims
Born(p) == p.why # "unborn"
\* ids assigned in the turn being taken
NewIds == {i \in Ids : ~Born(promise[i]) /\ Born(promise'[i])}
\* request() calls whose envelope went out and whose promise is unsettled
AwaitingRequests == {i \in pendingRequests : i \in timeouts /\ promise[i].why = "pending"
                                              /\ sendOf[i] = "sent"}

\* C1: when the client's open socket closes without disconnect() having been
\* called, every request() that is pending and unanswered is rejected with the
\* connection-closed error in that turn.
C1_CloseRejectsPending ==
  [][(ev'.op = "close" /\ ev'.a = {ws} /\ IsOpen(ws))
       => \A id \in AwaitingRequests : promise'[id].why = "closed"]_vars

\* C2: after disconnect(), and until the caller calls connect(), request() or
\* batch() again, no reconnect timer is armed whatever events of the closed
\* socket have been delivered, and once no socket has events left to deliver
\* the state is 'disconnected'.
C2_DisconnectIsTerminal ==
  userOff => /\ liveTimers = {}
             /\ (\A s \in DOMAIN socks : socks[s].st = "closed") => state = "disconnected"

\* C3: disconnect() invokes the reject of every entry of the pending-request
\* table with the connection-closed error (so every promise still unsettled is
\* rejected with it), disarms their timeouts and leaves the table empty.
C3_DisconnectDrains ==
  [][ev'.op = "disconnect"
       => /\ pendingRequests' = {}
          /\ timeouts' = {}
          /\ \A id \in pendingRequests :
               /\ settles'[id] = settles[id] + 1
               /\ promise[id].why = "pending" => promise'[id].why = "closed"
               /\ promise'[id].why # "pending"]_vars

C3_Witness ==
  /\ ev.op = "disconnect"
  /\ \A id \in Ids : promise[id].why = "closed"
  /\ \E k \in DOMAIN batches : batches[k].st = "rejected"

\* C4: for every request id, the resolve / reject of its pending call is invoked
\* at most once, whatever responses (matching, duplicate, late), timeout
\* expiries and disconnect() calls occur.
C4_SettledAtMostOnce == \A id \in Ids : settles[id] <= 1

C4_Witness ==
  \E id \in Ids : ev.op = "message" /\ id \in ev.a /\ promise[id].why = "closed"
                    /\ settles[id] = 1

\* C5: every entry of the pending-request table carries an armed timeout of its
\* own, so that it is removed even when the server never responds.
C5_EveryPendingHasTimeout == \A id \in pendingRequests : id \in timeouts

\* C6: ids are assigned in strictly increasing order across request() and
\* batch(): every id assigned so far is at most the counter, the ids of a batch
\* increase along its input order, and an id assigned in a turn is greater
\* than the counter before it and is not in the pending-request table.
C6_IdsIncrease ==
  [][/\ \A i \in Ids : Born(promise[i]) => i <= requestId
     /\ pendingRequests \subseteq 1..requestId
     /\ \A k \in DOMAIN batches' :
          \A i, j \in DOMAIN batches'[k].ids : i < j => batches'[k].ids[i] < batches'[k].ids[j]
     /\ \A i \in NewIds : i > requestId /\ i <= requestId' /\ i \notin pendingRequests
     /\ requestId' - requestId = Cardinality(NewIds)]_vars

C6_Witness ==
  /\ requestId = MaxId
  /\ \E k \in DOMAIN batches : Len(batches[k].ids) = 2
  /\ \E s \in DOMAIN socks : socks[s].st = "closed"
  /\ ev.op = "open"

\* C7: the promise batch() returns settles only once every pending call of the
\* batch has been resolved or rejected.
C7_BatchFanIn ==
  \A k \in DOMAIN batches :
    batches[k].st \in {"resolved", "rejected"}
      => \A id \in BatchIds(batches[k]) : promise[id].why # "pending"

\* C8: a batch whose elements all received a success response resolves to the
\* array whose i-th entry is the result the server gave for the i-th request.
C8_BatchOrder ==
  \A k \in DOMAIN batches :
    batches[k].st = "resolved"
      => /\ DOMAIN batches[k].res = DOMAIN batches[k].ids
         /\ \A i \in DOMAIN batches[k].ids : batches[k].res[i] = ResultOf(batches[k].ids[i])

C8_Witness ==
  \E k \in DOMAIN batches :
    /\ Len(batches[k].ids) = 2
    /\ batches[k].st = "resolved"
    /\ ev.op = "message"
    /\ ev.a = BatchIds(batches[k])

\* C9: the timeout callback of a request removes its entry and invokes its
\* reject with the timeout error (a promise still unsettled is rejected with
\* it); a frame that carries only ids that have timed out changes nothing.
C9_TimeoutThenLateResponse ==
  [][/\ ev'.op = "timeout"
          => \A id \in ev'.a :
               /\ id \notin pendingRequests' /\ id \notin timeouts'
               /\ settles'[id] = settles[id] + 1
               /\ promise[id].why = "pending" => promise'[id].why = "timeout"
               /\ promise'[id].why # "pending"
     /\ (ev'.op = "message" /\ ev'.a # {} /\ \A id \in ev'.a : promise[id].why = "timeout")
          => UNCHANGED <<socks, ws, state, reconnectTimer, liveTimers, requestId,
                         pendingRequests, timeouts, promise, settles, sendOf, batches>>]_vars

C9_Witness ==
  \E id \in Ids : ev.op = "message" /\ ev.a = {id} /\ promise[id].why = "timeout"
                    /\ state = "connected"

\* C10: at most one reconnect timer is armed at any time.
C10_OneReconnectTimer == Cardinality(liveTimers) <= 1

\* C11: at most one socket created by the instance is connecting or open at
\* any time.
C11_OneLiveSocket ==
  Cardinality({s \in DOMAIN socks : socks[s].st \in {"connecting", "open"}}) <= 1

\* C12: a frame that holds a message without id (alone or as an element of an
\* array) leaves every entry that no response of the frame names as it was:
\* not removed, not resolved, not rejected, its timer not cleared; when the
\* frame names no id at all, the whole table and every batch are unchanged.
C12_NotificationTouchesNoEntry ==
  [][(ev'.op = "message" /\ ev'.x = "notif")
       => /\ \A id \in Ids \ ev'.a :
               /\ (id \in pendingRequests') = (id \in pendingRequests)
               /\ (id \in timeouts') = (id \in timeouts)
               /\ promise'[id] = promise[id]
               /\ settles'[id] = settles[id]
          /\ ev'.a = {} => UNCHANGED <<pendingRequests, timeouts, promise, settles,
                                       batches, state, socks, ws>>]_vars

C12_Witness ==
  /\ ev.op = "message" /\ ev.x = "notif" /\ ev.a = {}
  /\ pendingRequests = Ids
  /\ \A id \in Ids : promise[id].why = "pending" /\ settles[id] = 0

\* C13: a frame whose responses all carry ids that are not in the table (never
\* issued, already answered, timed out or drained) changes nothing: no
\* resolve or reject is invoked, the table, the timers, the lifecycle state and
\* the sockets stay as they were.
C13_UnknownIdIsNoOp ==
  [][(ev'.op = "message" /\ ev'.a # {} /\ ev'.a \cap pendingRequests = {})
       => UNCHANGED <<socks, ws, state, reconnectTimer, liveTimers, requestId,
                      pendingRequests, timeouts, promise, settles, sendOf, batches>>]_vars

C13_Witness ==
  \E id \in Ids :
    /\ ev.op = "message" /\ ev.a = {id}
    /\ promise[id].why = "unborn"
    /\ pendingRequests # {}
    /\ state = "connected"

\* C14: whatever the order in which the responses arrive, a promise resolved
\* by a response holds the result of the response with its own id, and a
\* promise rejected by a response holds the error of the response with its
\* own id.
C14_CorrelatedById ==
  \A id \in Ids :
    /\ promise[id].why = "result" => promise[id].v = ResultOf(id)
    /\ promise[id].why = "rpc" => promise[id].v = NewError(ErrorOf(id))

C14_Witness ==
  /\ batches = <<>>
  /\ promise[1].why = "result" /\ promise[1].v = ResultOf(1)
  /\ promise[2].why = "rpc" /\ promise[2].v = NewError(ErrorOf(2))
  /\ ev.op = "message" /\ ev.a = {1}

\* C15: an envelope is only ever handed to a socket that is open at that
\* moment: no send throws and none is dropped by the socket.
C15_SentOnOpenSocket == \A id \in Ids : sendOf[id] \in {"none", "sent"}

\* C16: when a socket fails before it has opened, onerror sets the state to
\* 'error' and rejects the promise of the connect() that created it (nothing
\* waits on the socket any more and no request was issued on it), and no entry
\* of the table is rejected or removed by it.
C16_ConnectFailure ==
  [][(ev'.op = "error" /\ ev'.x \in {"connecting", "closingC"})
       => /\ state' = "error"
          /\ \A s \in ev'.a : socks'[s].st = "errored" /\ socks'[s].w = "none"
          /\ UNCHANGED <<pendingRequests, timeouts, promise, settles, batches,
                         sendOf, requestId>>]_vars

C16_Witness ==
  /\ ev.op = "error" /\ ev.x = "connecting"
  /\ state = "error"
  /\ \E id \in pendingRequests : promise[id].why = "pending" /\ settles[id] = 0

\* C17: the close of a socket arms exactly one new reconnect timer when the
\* reconnect option is on and none when it is off, and a timer that fires
\* makes at most one attempt (one socket) and is gone.
C17_OneAttemptPerClose ==
  [][/\ ev'.op = "close"
          => IF reconnect
             THEN \E s \in ev'.a : /\ s \notin liveTimers
                                   /\ liveTimers' = liveTimers \cup {s}
                                   /\ reconnectTimer' = s
             ELSE liveTimers = {} /\ UNCHANGED <<liveTimers, reconnectTimer>>
     /\ ev'.op = "rtimer"
          => /\ liveTimers' = liveTimers \ ev'.a
             /\ Len(socks') <= Len(socks) + 1]_vars

C17_Witness ==
  /\ ev.op = "close" /\ ev.x = "open"
  /\ reconnect /\ ~userOff
  /\ liveTimers = ev.a /\ reconnectTimer \in liveTimers

\* C18: with the reconnect option on and no disconnect() by the caller, a
\* client that has had a socket and is not 'connected' has a reconnection
\* under way: a reconnect timer is armed or a socket is still to open or to
\* deliver its close. Otherwise nothing but a caller action or the loss of yet
\* another socket can bring the state back to 'connected'.
C18_ReconnectUnderWay ==
  (reconnect /\ ~userOff /\ Len(socks) > 0 /\ state # "connected")
    => \/ liveTimers # {}
       \/ \E s \in DOMAIN socks :
            socks[s].st \in {"connecting", "closingC", "closingO", "errored"}

\* the socket the client holds is open
HeldOpen == ws # 0 /\ socks[ws].st = "open"

\* C19: connect() on an open socket returns at once: no socket is created and
\* the state, the table, the id counter and the timers are unchanged.
C19_ConnectIdempotent ==
  [][(ev'.op = "connect" /\ HeldOpen)
       => UNCHANGED <<socks, ws, state, reconnectTimer, liveTimers, requestId,
                      pendingRequests, timeouts, promise, settles, sendOf, batches>>]_vars

C19_Witness ==
  /\ ev.op = "connect" /\ HeldOpen
  /\ Len(socks) = 1
  /\ state = "connected"
  /\ pendingRequests # {}

\* C20: no reconnect timer fires while the socket the client holds is open.
C20_NoTimerFiresWhileOpen == [][ev'.op = "rtimer" => ~HeldOpen]_vars

\* C21: the promise an error response rejects is that of the request with the
\* response's id, and the rejection carries the code, the message and the data
\* of the response's error object.
C21_RejectionCarriesError ==
  \A id \in Ids :
    promise[id].why = "rpc"
      => /\ {"code", "message", "data"} \subseteq DOMAIN promise[id].v
         /\ promise[id].v.code = ErrorOf(id).code
         /\ promise[id].v.message = ErrorOf(id).message
         /\ promise[id].v.data = ErrorOf(id).data

\* the correlation state of id is the same before and after the turn
EntryUnchanged(id) ==
  /\ (id \in pendingRequests') = (id \in pendingRequests)
  /\ (id \in timeouts') = (id \in timeouts)
  /\ promise'[id] = promise[id]
  /\ settles'[id] = settles[id]

\* C22: the turn in which a request times out, and the turn in which an error
\* response rejects a call, leave the sockets, this.ws, the lifecycle state,
\* the reconnect timer and the id counter as they were, and every entry of the
\* table other than those the turn is about.
C22_CallFailureIsLocal ==
  [][(\/ ev'.op = "timeout"
      \/ /\ ev'.op = "message"
         /\ \E id \in ev'.a : promise[id].why = "pending" /\ promise'[id].why = "rpc")
       => /\ UNCHANGED <<socks, ws, state, reconnectTimer, liveTimers, requestId, sendOf>>
          /\ \A id \in Ids \ ev'.a : EntryUnchanged(id)]_vars

C22_Witness ==
  /\ ev.op = "message" /\ ev.a = {1}
  /\ promise[1].why = "rpc" /\ 1 \notin pendingRequests
  /\ promise[2].why = "pending" /\ 2 \in pendingRequests /\ 2 \in timeouts
  /\ state = "connected" /\ ws # 0 /\ socks[ws].st = "open"

\* C23: a frame that is not valid JSON changes nothing: no resolve or reject
\* is invoked, the table, the timers, the lifecycle state and the sockets stay
\* as they were, so the socket that received it still delivers frames.
C23_InvalidJsonDropped ==
  [][(ev'.op = "message" /\ ev'.x = "garbage")
       => UNCHANGED <<socks, ws, state, reconnectTimer, liveTimers, requestId,
                      pendingRequests, timeouts, promise, settles, sendOf, batches>>]_vars

C23_Witness ==
  /\ ev.op = "message" /\ ev.x = "garbage"
  /\ pendingRequests = Ids
  /\ \A id \in Ids : promise[id].why = "pending" /\ settles[id] = 0
  /\ state = "connected" /\ ws # 0 /\ socks[ws].st = "open"

\* C24: every response of a received frame whose id is in the table settles
\* its pending call and removes it, wherever in an array frame it stands and
\* whatever the other elements are.
C24_ElementsIndependent ==
  [][ev'.op = "message"
       => \A id \in ev'.a \cap pendingRequests :
            id \notin pendingRequests' /\ settles'[id] = settles[id] + 1]_vars

\* times operation x was made for an id
Count(seq, x) == Cardinality({i \in DOMAIN seq : seq[i] = x})

\* C25: the envelope of an id is handed to a socket at most once and its
\* pending call is registered at most once, whatever sockets are lost and
\* opened afterwards.
C25_NoRetransmit ==
  \A id \in Ids : Count(calls[id], "send") <= 1 /\ Count(calls[id], "set") <= 1

C25_Witness ==
  /\ ev.op = "open" /\ ev.a = {2}
  /\ socks[1].st = "closed" /\ state = "connected"
  /\ batches = <<>>
  /\ \A id \in Ids : /\ id \in pendingRequests /\ promise[id].why = "pending"
                     /\ sendOf[id] = "sent" /\ calls[id] = <<"set", "send">>

\* C30: the pending call of an id is registered before its envelope is handed
\* to the socket: every send made for an id comes after the Map.set for it, so
\* an id that has been sent has been registered.
C30_RegisteredBeforeSent ==
  \A id \in Ids :
    \A i \in DOMAIN calls[id] :
      calls[id][i] = "send" => \E j \in 1..(i - 1) : calls[id][j] = "set"

C30_Witness ==
  \E k \in DOMAIN batches :
    /\ Len(batches[k].ids) = 2
    /\ \A id \in BatchIds(batches[k]) :
         /\ calls[id] = <<"set", "send">> /\ sendOf[id] = "sent"
         /\ promise[id].why = "result"
    /\ ev.op = "message"

\* C26: a disconnect() that directly follows a disconnect() changes nothing:
\* the state is and stays 'disconnected', the table empty, this.ws and
\* this.reconnectTimer null, and no reject is invoked.
C26_DisconnectIdempotent ==
  [][(ev.op = "disconnect" /\ ev'.op = "disconnect")
       => /\ state' = "disconnected" /\ pendingRequests' = {} /\ timeouts' = {}
          /\ ws' = 0 /\ reconnectTimer' = 0
          /\ UNCHANGED <<socks, ws, state, reconnectTimer, liveTimers, requestId,
                         pendingRequests, timeouts, promise, settles, sendOf, calls,
                         batches>>]_vars

C26_Witness ==
  /\ ev.op = "disconnect"
  /\ state = "disconnected" /\ pendingRequests = {} /\ ws = 0 /\ reconnectTimer = 0
  /\ \E id \in Ids : promise[id].why = "closed" /\ settles[id] = 1
  /\ \E s \in DOMAIN socks : socks[s].st = "closingO"

\* C29: a call whose send failed because the socket was not open has been
\* rejected, and none of its ids is in the table and none of its request
\* timers is armed.
C29_SendFailureLeavesNoEntry ==
  \A id \in Ids :
    sendOf[id] = "threw"
      => id \notin pendingRequests /\ id \notin timeouts /\ promise[id].why # "pending"

C31_StateTracksHeldSocket == (state = "connected") <=> HeldOpen

\* C32: when a socket has reported an error and then closes, the state is
\* still 'error' and that close has armed no reconnect timer.
C32_NoReconnectAfterError ==
  (ev.op = "close" /\ ev.x = "errored")
    => state = "error" /\ ev.a \cap liveTimers = {}

\* C33: when the socket a request() or batch() is awaiting fails, the call is
\* released without going on: the id counter, the table, the timers and the
\* promises are unchanged, nothing is registered and nothing is sent, and the
\* ids the call would have taken are free again.
C33_FailedImplicitConnect ==
  [][(ev'.op = "error" /\ ev'.w \in {"request", "batch"})
       => /\ UNCHANGED <<requestId, pendingRequests, timeouts, promise, settles,
                         sendOf, calls, batches>>
          /\ \A s \in ev'.a : socks'[s].w = "none" /\ socks'[s].n = 0]_vars

C33_Witness ==
  /\ ev.op = "error" /\ ev.w = "batch" /\ ev.x = "connecting"
  /\ requestId = 1 /\ pendingRequests = {1}
  /\ \A id \in Ids \ {1} : promise[id].why = "unborn" /\ calls[id] = <<>>
  /\ FreeIds = MaxId - 1

\* C34: a request timer is armed only for an id that is in the table, so no
\* timeout callback can fire for an id that a response or disconnect() has
\* removed; right after disconnect() no request timer is armed at all.
C34_NoTimerWithoutEntry ==
  /\ timeouts \subseteq pendingRequests
  /\ ev.op = "disconnect" => timeouts = {}

C34_Witness ==
  /\ ev.op = "message" /\ ev.a = {1}
  /\ promise[1].why = "result" /\ 1 \notin pendingRequests /\ 1 \notin timeouts
  /\ promise[2].why = "pending" /\ 2 \in pendingRequests /\ 2 \in timeouts

====
